---- MODULE Spec2Model ----
(***************************************************************************)
(* Model of the Telegram ingestion engine (src/src/scraper.py):            *)
(* TelegramScraper.scrape_all drives, for every configured channel,        *)
(* scrape_channel = get_entity -> safe_get_messages (retry loop around     *)
(* iter_messages) -> process_message for every raw message ->              *)
(* save_messages, and finally generate_scrape_report.                      *)
(*                                                                         *)
(* The upstream (Telegram) is the environment: it decides whether connect  *)
(* and get_entity succeed, how many messages a channel holds, at which     *)
(* point of a stream an error is raised and of which kind, which messages  *)
(* fail in process_message, and whether a write fails.                     *)
(***************************************************************************)
EXTENDS Integers, Sequences, FiniteSets, TLC

\* ---- bounds of the model ------------------------------------------------
\* one scrape_channel call (ChannelSpec)
MaxLimit == 2           \* largest limit passed to safe_get_messages
MaxAvail == 2           \* most messages a channel holds upstream
\* a whole scrape_all run (Spec)
MaxRunLimit == 1        \* largest limit passed to safe_get_messages
MaxRunAvail == 1        \* most messages a channel holds upstream
\* both
MaxFloodSeconds == 6    \* largest FloodWaitError.seconds the upstream sends
\* one asyncio.gather (GatherSpec)
MaxGather == 3          \* most raw messages handed to the gather
\* one message text (TextSpec)
MaxPieces == 2          \* most pieces a text is put together from
\* one load_channels call (RegistrySpec)
MaxConfig == 5          \* most identifiers the configuration file lists
\* one safe_get_messages call, its messages counted (PacingSpec)
MaxPacedLimit == 51     \* largest limit passed to safe_get_messages
\* one request to the analytical API (ApiSpec)
MaxApiLimit == 3        \* largest limit parameter of a request
MaxRows == 3            \* most rows a query without LIMIT returns

\* ---- program constants --------------------------------------------------
max_retries == 3        \* self.max_retries
FLOOD_GRACE == 5        \* asyncio.sleep(e.seconds + 5)
RPC_SLEEP == 5          \* asyncio.sleep(5)
OTHER_SLEEP == 10       \* asyncio.sleep(10)
MICRO_DELAY_EVERY == 50 \* if len(messages) % 50 == 0

\* the hardcoded fallback list of load_channels
ChannelIds == {"lobelia4cosmetics", "tikvahpharma"}

ErrorKinds == {"flood", "rpc", "other"}

VARIABLES
    channels,            \* self.channels
    limit,               \* self.max_messages_per_channel, the limit passed to safe_get_messages
    pc,                  \* position of the single control flow
    connected,           \* result of connect()
    idx,                 \* index of the for loop of scrape_all (1-based)
    total_messages,      \* local of scrape_all
    upstream,            \* environment: channel |-> number of messages it holds
    undated,             \* environment: ids of the messages that carry no date
    messages,            \* local of safe_get_messages
    retry_count,         \* local of safe_get_messages
    pos,                 \* items yielded by the iter_messages of the current attempt
    err,                 \* exception being handled: <<kind, seconds>> or <<>>
    waited,              \* seconds slept since the last exception was raised
    attempts,            \* history: iter_messages streams started in this call
    yielded,             \* history: every message yielded during this call
    raw_messages,        \* local of scrape_channel
    errors,              \* history: messages of this channel whose process_message returned None
    processed_messages,  \* local of scrape_channel
    count,               \* value returned by scrape_channel
    failed,              \* history: the current scrape_channel took an except branch
    files,               \* data lake: <<partition, channel>> |-> the file <channel>.json
    manifests,           \* data lake: <<partition, channel>> |-> <channel>_summary.json
    outcomes,            \* history: one entry per finished scrape_channel call
    delays,              \* history: inter-channel sleeps taken
    reports,             \* reports written by generate_scrape_report
    msg,                 \* the message passed to the process_message call under study
    download,            \* state of message.download_media under asyncio.wait_for
    image,               \* the file at img_path on disk
    img_path,            \* value returned by download_image
    result,              \* value returned by process_message: <<>> is None
    results,             \* asyncio.gather: position |-> value of the finished task
    finished,            \* history: positions of the tasks in the order they finished
    text,                \* message.text or "", as the sequence of its characters
    price,               \* <<value of _contains_price(text)>>, <<>> before the call
    contact,             \* <<value of _contains_contact(text)>>, <<>> before the call
    config,              \* environment: the file at CHANNELS_CONFIG_PATH
    fetched,             \* len(messages), where the list itself is left out
    slept,               \* the last item appended was followed by the micro-delay
    request,             \* API: the request being served
    query,               \* API: <<state of the try block>>, <<>> before db.execute
    response             \* API: <<response sent>>, <<>> before

vars == <<channels, limit, upstream, undated, pc, connected, idx, total_messages, messages,
          retry_count, pos, err, waited, attempts, yielded, raw_messages, errors,
          processed_messages, count, failed, files, manifests, outcomes, delays,
          reports, msg, download, image, img_path, result, results, finished,
          text, price, contact, config, fetched, slept, request, query,
          response>>

fetchVars == <<messages, retry_count, pos, err, waited, attempts, yielded>>
channelVars == <<raw_messages, errors, processed_messages, count, failed>>
lakeVars == <<files, manifests>>
runVars == <<connected, idx, total_messages, outcomes, delays, reports>>
configVars == <<channels, limit, upstream, undated>>
mediaVars == <<msg, download, image, img_path, result>>
gatherVars == <<results, finished>>
\* the variables that scrape_all and its callees, as modelled in Spec, leave alone
textVars == <<text, price, contact>>
registryVars == <<config>>
pacingVars == <<fetched, slept>>
apiVars == <<request, query, response>>
otherVars == <<gatherVars, textVars, registryVars, pacingVars, apiVars>>

\* a path of the data lake holds no file, or one file with its content
NoFile == <<>>
FileOf(content) == <<content>>
Content(file) == file[1]

Min(a, b) == IF a <= b THEN a ELSE b

\* ---- upstream messages and dates ---------------------------------------
\* A timestamp is <<day, time of day>>, ordered like its ISO string; the
\* message with the larger id is the newer one, and two messages can share a day.
NoDate == <<>>
Day(id) == id \div 2
MessageDate(id) == <<Day(id), id>>

\* datetime.now(): no message is dated after the day of the run
Today == Day(MaxAvail) + 1

\* the date partitions (YYYY-MM-DD folders) and the paths below raw_data_dir
Partitions == 0..Today
Paths == Partitions \X ChannelIds

\* the upstream message with this id; the channels of the pipeline hold text
\* messages (message.media is None)
Message(id) ==
    [id |-> id,
     date |-> IF id \in undated THEN NoDate ELSE MessageDate(id),
     media |-> "none"]

\* the channel lists a configuration can hold over the known channels, repeated
\* identifiers included: every list of at most as many entries as there are channels
ChannelLists == UNION {[1..k -> ChannelIds] : k \in 0..Cardinality(ChannelIds)}

\* no asyncio.gather is under way
GatherIdle ==
    /\ results = <<>>
    /\ finished = <<>>

\* no text is being looked at
TextIdle ==
    /\ text = <<>>
    /\ price = <<>>
    /\ contact = <<>>

\* a configuration file that holds the list of channels, and the file that
\* load_channels read when the scraper was constructed
ValidConfig(list) == [state |-> "valid", content |-> list]

ConfigRead == config = ValidConfig(channels)

\* no message is counted
PacingIdle ==
    /\ fetched = 0
    /\ slept = FALSE

\* no request is being served
ApiIdle ==
    /\ request = <<>>
    /\ query = <<>>
    /\ response = <<>>

\* no local of the scraper is set yet and the data lake is empty
ScraperIdle ==
    /\ total_messages = 0
    /\ messages = <<>>
    /\ retry_count = 0
    /\ pos = 0
    /\ err = <<>>
    /\ waited = 0
    /\ attempts = 0
    /\ yielded = <<>>
    /\ raw_messages = <<>>
    /\ errors = 0
    /\ processed_messages = <<>>
    /\ count = 0
    /\ failed = FALSE
    /\ files = [p \in Paths |-> NoFile]
    /\ manifests = [p \in Paths |-> NoFile]
    /\ outcomes = <<>>
    /\ delays = 0
    /\ reports = <<>>
    /\ download = "idle"
    /\ image = "missing"
    /\ img_path = <<>>
    /\ result = <<>>

\* no local is set yet, the data lake is empty and nothing has been recorded
NothingDone ==
    /\ ScraperIdle
    /\ GatherIdle
    /\ TextIdle
    /\ ConfigRead
    /\ PacingIdle
    /\ ApiIdle

\* a TelegramScraper after construction, main() about to call scrape_all
Init ==
    /\ channels \in ChannelLists
    /\ limit \in 1..MaxRunLimit
    /\ upstream \in [ChannelIds -> 0..MaxRunAvail]
    /\ undated = {}
    /\ pc = "start"
    /\ connected = FALSE
    /\ idx = 0
    /\ msg = <<>>
    /\ NothingDone

\* scrape_all, connected, calls scrape_channel for the only channel of its list
ChannelInit ==
    /\ channels \in [1..1 -> ChannelIds]
    /\ limit \in 1..MaxLimit
    /\ upstream \in {u \in [ChannelIds -> 0..MaxAvail] :
                        \A c \in ChannelIds : c # channels[1] => u[c] = 0}
    /\ undated \in SUBSET (1..upstream[channels[1]])
    /\ pc = "entity"
    /\ connected = TRUE
    /\ idx = 1
    /\ msg = <<>>
    /\ NothingDone

\* scrape_channel has resolved the only channel of the list and calls
\* safe_get_messages
FetchInit ==
    /\ channels \in [1..1 -> ChannelIds]
    /\ limit \in 1..MaxLimit
    /\ upstream \in {u \in [ChannelIds -> 0..MaxAvail] :
                        \A c \in ChannelIds : c # channels[1] => u[c] = 0}
    /\ undated = {}
    /\ pc = "fetch"
    /\ connected = TRUE
    /\ idx = 1
    /\ msg = <<>>
    /\ NothingDone

\* ---- connect (scraper.py 90-111) and the head of scrape_all (320-326) ---

\* connect() returned True: total_messages = 0 and the for loop starts
ConnectOk ==
    /\ pc = "start"
    /\ connected' = TRUE
    /\ total_messages' = 0
    /\ idx' = 1
    /\ pc' = "loop"
    /\ UNCHANGED <<configVars, otherVars, mediaVars, fetchVars, channelVars, lakeVars, outcomes,
                   delays, reports>>

\* variant: the result of connect() is not tested and the for loop starts anyway
ConnectFailsIgnored ==
    /\ pc = "start"
    /\ connected' = FALSE
    /\ total_messages' = 0
    /\ idx' = 1
    /\ pc' = "loop"
    /\ UNCHANGED <<configVars, otherVars, mediaVars, fetchVars, channelVars, lakeVars, outcomes,
                   delays, reports>>

\* connect() caught an exception and returned False: scrape_all returns
ConnectFails ==
    /\ pc = "start"
    /\ connected' = FALSE
    /\ pc' = "done"
    /\ UNCHANGED <<configVars, otherVars, mediaVars,
                   fetchVars, channelVars, lakeVars, idx, total_messages,
                   outcomes, delays, reports>>

\* ---- scrape_all, for loop (scraper.py 328-330) ---------------------------

\* the for loop takes the next channel and calls scrape_channel(channel)
ForNext ==
    /\ pc = "loop"
    /\ idx <= Len(channels)
    /\ pc' = "entity"
    /\ UNCHANGED <<configVars, otherVars, mediaVars, fetchVars, channelVars, lakeVars, runVars>>

\* ---- scrape_channel, entity lookup (scraper.py 278-290, 313-318) --------

\* get_entity succeeded; safe_get_messages starts with messages = [], retry_count = 0
GetEntityOk ==
    /\ pc = "entity"
    /\ messages' = <<>>
    /\ retry_count' = 0
    /\ pos' = 0
    /\ err' = <<>>
    /\ waited' = 0
    /\ attempts' = 0
    /\ yielded' = <<>>
    /\ pc' = "fetch"
    /\ UNCHANGED <<configVars, otherVars, mediaVars, channelVars, lakeVars, runVars>>

\* variant: the exception of get_entity is not caught and ends scrape_all
GetEntityAborts ==
    /\ pc = "entity"
    /\ failed' = TRUE
    /\ count' = 0
    /\ pc' = "done"
    /\ UNCHANGED <<configVars, otherVars, mediaVars,
                   fetchVars, raw_messages, errors, processed_messages,
                   lakeVars, runVars>>

\* get_entity raised (ChannelInvalidError or any Exception): scrape_channel returns 0
GetEntityFails ==
    /\ pc = "entity"
    /\ failed' = TRUE
    /\ count' = 0
    /\ pc' = "returned"
    /\ UNCHANGED <<configVars, otherVars, mediaVars,
                   fetchVars, raw_messages, errors, processed_messages,
                   lakeVars, runVars>>

\* ---- safe_get_messages (scraper.py 113-150) -----------------------------

\* the i-th item (1-based) of a stream over a channel holding n messages:
\* iter_messages starts at the newest message on every call
StreamItem(n, i) == Message(n - i + 1)

\* number of items one complete stream delivers
StreamLength(lim, n) == Min(lim, n)

\* messages held by the channel scrape_channel is working on
avail == upstream[channels[idx]]

\* variant: FloodWaitError is caught by the RPCError branch (it is a subclass)
BackoffSecondsRpcFirst(kind, seconds) ==
    CASE kind = "flood" -> RPC_SLEEP
      [] kind = "rpc" -> RPC_SLEEP
      [] OTHER -> OTHER_SLEEP

\* variant: the two fixed intervals the other way round
BackoffSecondsSwapped(kind, seconds) ==
    CASE kind = "flood" -> seconds + FLOOD_GRACE
      [] kind = "rpc" -> OTHER_SLEEP
      [] OTHER -> RPC_SLEEP

\* seconds slept by the except branch that handles the error
BackoffSeconds(kind, seconds) ==
    CASE kind = "flood" -> seconds + FLOOD_GRACE
      [] kind = "rpc" -> RPC_SLEEP
      [] OTHER -> OTHER_SLEEP

\* variant: the while test is off by one
RetryAllowedOffByOne(rc) == rc <= max_retries

\* the while test of safe_get_messages
RetryAllowed(rc) == rc < max_retries

\* variant: every attempt starts from an empty list
AttemptStartResets ==
    /\ pc = "fetch"
    /\ RetryAllowed(retry_count)
    /\ messages' = <<>>
    /\ pos' = 0
    /\ err' = <<>>
    /\ waited' = 0
    /\ attempts' = attempts + 1
    /\ pc' = "stream"
    /\ UNCHANGED <<configVars, otherVars, mediaVars, retry_count, yielded, channelVars,
                   lakeVars, runVars>>

\* while retry_count < self.max_retries: a new iter_messages stream is opened
AttemptStart ==
    /\ pc = "fetch"
    /\ RetryAllowed(retry_count)
    /\ pos' = 0
    /\ err' = <<>>
    /\ waited' = 0
    /\ attempts' = attempts + 1
    /\ pc' = "stream"
    /\ UNCHANGED <<configVars, otherVars, mediaVars, messages, retry_count, yielded, channelVars,
                   lakeVars, runVars>>

\* the stream yields its next item: messages.append(message); the periodic
\* sleep of lines 127-131 changes none of the variables
Yield ==
    /\ pc = "stream"
    /\ pos < StreamLength(limit, avail)
    /\ messages' = Append(messages, StreamItem(avail, pos + 1))
    /\ yielded' = Append(yielded, StreamItem(avail, pos + 1))
    /\ pos' = pos + 1
    /\ UNCHANGED <<configVars, otherVars, mediaVars, pc, retry_count, err, waited, attempts,
                   channelVars, lakeVars, runVars>>

\* the stream is exhausted: break, then return messages
StreamEnd ==
    /\ pc = "stream"
    /\ pos = StreamLength(limit, avail)
    /\ raw_messages' = messages
    /\ pc' = "process"
    /\ UNCHANGED <<configVars, otherVars, mediaVars,
                   fetchVars, errors, processed_messages, count, failed,
                   lakeVars, runVars>>

\* the stream raises: FloodWaitError(seconds), another RPCError, or another Exception
Raise ==
    /\ pc = "stream"
    /\ \E kind \in ErrorKinds :
         \E seconds \in (IF kind = "flood" THEN 1..MaxFloodSeconds ELSE {0}) :
            err' = <<kind, seconds>>
    /\ waited' = 0
    /\ pc' = "except"
    /\ UNCHANGED <<configVars, otherVars, mediaVars, messages, retry_count, pos, attempts, yielded,
                   channelVars, lakeVars, runVars>>

\* the matching except branch: sleep, retry_count += 1, back to the while test
Backoff ==
    /\ pc = "except"
    /\ waited' = waited + BackoffSeconds(err[1], err[2])
    /\ retry_count' = retry_count + 1
    /\ pc' = "fetch"
    /\ UNCHANGED <<configVars, otherVars, mediaVars, messages, pos, err, attempts, yielded,
                   channelVars, lakeVars, runVars>>

\* the while test fails: return messages
RetriesExhausted ==
    /\ pc = "fetch"
    /\ ~RetryAllowed(retry_count)
    /\ raw_messages' = messages
    /\ pc' = "process"
    /\ UNCHANGED <<configVars, otherVars, mediaVars,
                   fetchVars, errors, processed_messages, count, failed,
                   lakeVars, runVars>>

\* ---- scrape_channel, processing and saving (scraper.py 292-318) ---------

\* no image path (None), and the path download_image builds for a message
NoPath == <<>>
ImagePath(message, channel_name) == <<channel_name, message.id>>

\* variant: only attachments that are no photo count as media
HasMediaNoPhoto(message) == message.media = "document"

\* bool(message.media)
HasMedia(message) == message.media # "none"

\* message.media and isinstance(message.media, MessageMediaPhoto)
IsPhoto(message) == message.media = "photo"

\* process_message for a message that raised nothing (scraper.py 156-177);
\* downloaded is what download_image returns when it is called
process_message(message, channel_name, downloaded) ==
    [message_id |-> message.id,
     channel_name |-> channel_name,
     message_date |-> message.date,
     has_media |-> HasMedia(message),
     image_path |-> IF IsPhoto(message) THEN downloaded ELSE NoPath]

\* variant: the first message that raises ends the processing of the channel
ProcessedStopsAtFailure(raw, bad, channel_name) ==
    LET F[i \in 0..Len(raw)] ==
            IF i = 0 THEN <<>>
            ELSE IF \E j \in 1..i : j \in bad THEN F[i - 1]
            ELSE Append(F[i - 1], process_message(raw[i], channel_name, NoPath))
    IN F[Len(raw)]

\* asyncio.gather over process_message, then [m for m in processed_messages if m]:
\* bad is the set of positions whose process_message returned None
Processed(raw, bad, channel_name) ==
    LET F[i \in 0..Len(raw)] ==
            IF i = 0 THEN <<>>
            ELSE IF i \in bad THEN F[i - 1]
            ELSE Append(F[i - 1], process_message(raw[i], channel_name, NoPath))
    IN F[Len(raw)]

\* scrape_channel moves on with raw_messages only: the locals of the finished
\* safe_get_messages call and its history are dropped
FetchFrameDropped ==
    /\ messages' = <<>>
    /\ retry_count' = 0
    /\ pos' = 0
    /\ err' = <<>>
    /\ waited' = 0
    /\ attempts' = 0
    /\ yielded' = <<>>

\* if not raw_messages: return 0
NoMessages ==
    /\ pc = "process"
    /\ raw_messages = <<>>
    /\ count' = 0
    /\ FetchFrameDropped
    /\ pc' = "returned"
    /\ UNCHANGED <<configVars, otherVars, mediaVars,
                   raw_messages, errors, processed_messages, failed,
                   lakeVars, runVars>>

\* every raw message is processed; the ones that raised are dropped
Process ==
    /\ pc = "process"
    /\ raw_messages # <<>>
    /\ \E bad \in SUBSET (1..Len(raw_messages)) :
          /\ processed_messages' = Processed(raw_messages, bad, channels[idx])
          /\ errors' = Cardinality(bad)
    /\ FetchFrameDropped
    /\ pc' = "save"
    /\ UNCHANGED <<configVars, otherVars, mediaVars,
                   raw_messages, count, failed, lakeVars, runVars>>

\* ---- save_messages (scraper.py 224-272) ---------------------------------

\* message_date[:10], the YYYY-MM-DD prefix of the ISO string
DatePart(message_date) == message_date[1]

\* variant: the partition is taken from the last record
date_part_of_last(batch) ==
    IF batch[Len(batch)].message_date # NoDate
    THEN DatePart(batch[Len(batch)].message_date)
    ELSE Today

\* the partition: the date of the first record, or today (scraper.py 231-234)
date_part(batch) ==
    IF batch[1].message_date # NoDate
    THEN DatePart(batch[1].message_date)
    ELSE Today

\* channel_name.replace('@', '').replace('/', '_'): the channel names of the
\* model hold neither character
safe_channel_name(channel_name) == channel_name

\* out_folder/<safe_channel_name>.json; the summary lies next to it
out_path(batch, channel_name) == <<date_part(batch), safe_channel_name(channel_name)>>

\* sum(1 for m in messages if m.get('image_path'))
WithImages(batch) == Cardinality({i \in 1..Len(batch) : batch[i].image_path # NoPath})

\* the summary of save_messages (scraper.py 257-268)
Summary(batch, channel_name) ==
    [channel |-> channel_name,
     total_messages |-> Len(batch),
     date_range |-> [earliest |-> batch[Len(batch)].message_date,
                     latest |-> batch[1].message_date],
     with_images |-> WithImages(batch),
     file_path |-> out_path(batch, channel_name)]

\* the path save_messages writes for the current channel
OutPath == out_path(processed_messages, channels[idx])

\* variant: the file is opened for appending
OpenedForAppend(file) == IF file = NoFile THEN FileOf(<<>>) ELSE file

\* open(out_path, 'w'): the file exists and is empty, whatever it held
Opened(file) == FileOf(<<>>)

\* if not messages: return (nothing is written); scrape_channel returns 0
SaveSkipped ==
    /\ pc = "save"
    /\ processed_messages = <<>>
    /\ count' = Len(processed_messages)
    /\ pc' = "returned"
    /\ UNCHANGED <<configVars, otherVars, mediaVars,
                   fetchVars, raw_messages, errors, processed_messages,
                   failed, lakeVars, runVars>>

\* os.makedirs(out_folder) and open(out_path, 'w')
SaveOpen ==
    /\ pc = "save"
    /\ processed_messages # <<>>
    /\ files' = [files EXCEPT ![OutPath] = Opened(files[OutPath])]
    /\ pc' = "dump"
    /\ UNCHANGED <<configVars, otherVars, mediaVars, fetchVars, channelVars, manifests, runVars>>

\* json.dump(messages, f) and the close of the file
SaveDump ==
    /\ pc = "dump"
    /\ files' = [files EXCEPT ![OutPath] =
                    FileOf(Content(files[OutPath]) \o processed_messages)]
    /\ pc' = "summary"
    /\ UNCHANGED <<configVars, otherVars, mediaVars, fetchVars, channelVars, manifests, runVars>>

\* variant: no summary is written
SaveSummaryOmitted ==
    /\ pc = "summary"
    /\ count' = Len(processed_messages)
    /\ pc' = "returned"
    /\ UNCHANGED <<configVars, otherVars, mediaVars,
                   fetchVars, raw_messages, errors, processed_messages,
                   failed, lakeVars, runVars>>

\* the summary is written; save_messages returns and scrape_channel returns
\* len(processed_messages)
SaveSummary ==
    /\ pc = "summary"
    /\ manifests' = [manifests EXCEPT ![OutPath] =
                        FileOf(Summary(processed_messages, channels[idx]))]
    /\ count' = Len(processed_messages)
    /\ pc' = "returned"
    /\ UNCHANGED <<configVars, otherVars, mediaVars,
                   fetchVars, raw_messages, errors, processed_messages,
                   failed, files, runVars>>

\* save_messages raised (makedirs, open, json.dump or the summary write);
\* what is on disk stays as it is; except Exception: scrape_channel returns 0
SaveFails ==
    /\ \/ pc = "save" /\ processed_messages # <<>>
       \/ pc = "dump"
       \/ pc = "summary"
    /\ failed' = TRUE
    /\ count' = 0
    /\ pc' = "returned"
    /\ UNCHANGED <<configVars, otherVars, mediaVars,
                   fetchVars, raw_messages, errors, processed_messages,
                   lakeVars, runVars>>

\* ---- scrape_all, loop body and report (scraper.py 330-346) --------------

\* variant: total_messages = count instead of +=
AccumulateAssigns ==
    /\ pc = "returned"
    /\ total_messages' = count
    /\ outcomes' = Append(outcomes, [channel |-> channels[idx], count |-> count,
                                     failed |-> failed])
    /\ IF channels[idx] # channels[Len(channels)]
       THEN pc' = "delay" /\ idx' = idx
       ELSE pc' = "loop" /\ idx' = idx + 1
    /\ raw_messages' = <<>>
    /\ errors' = 0
    /\ processed_messages' = <<>>
    /\ count' = 0
    /\ failed' = FALSE
    /\ UNCHANGED <<configVars, otherVars, mediaVars,
                   fetchVars, lakeVars, connected, delays, reports>>

\* total_messages += count; a delay follows unless channel == self.channels[-1];
\* the locals of the finished scrape_channel call are gone
Accumulate ==
    /\ pc = "returned"
    /\ total_messages' = total_messages + count
    /\ outcomes' = Append(outcomes, [channel |-> channels[idx], count |-> count,
                                     failed |-> failed])
    /\ IF channels[idx] # channels[Len(channels)]
       THEN pc' = "delay" /\ idx' = idx
       ELSE pc' = "loop" /\ idx' = idx + 1
    /\ raw_messages' = <<>>
    /\ errors' = 0
    /\ processed_messages' = <<>>
    /\ count' = 0
    /\ failed' = FALSE
    /\ UNCHANGED <<configVars, otherVars, mediaVars,
                   fetchVars, lakeVars, connected, delays, reports>>

\* variant: the sleep is followed by the channel after the next one
DelaySkips ==
    /\ pc = "delay"
    /\ delays' = delays + 1
    /\ idx' = idx + 2
    /\ pc' = "loop"
    /\ UNCHANGED <<configVars, otherVars, mediaVars, fetchVars, channelVars, lakeVars, connected,
                   total_messages, outcomes, reports>>

\* await asyncio.sleep(random.uniform(10, 30))
Delay ==
    /\ pc = "delay"
    /\ delays' = delays + 1
    /\ idx' = idx + 1
    /\ pc' = "loop"
    /\ UNCHANGED <<configVars, otherVars, mediaVars, fetchVars, channelVars, lakeVars, connected,
                   total_messages, outcomes, reports>>

\* the report written by generate_scrape_report (scraper.py 348-372)
Report(chans, total) ==
    [total_channels |-> Len(chans), total_messages |-> total, channels_scraped |-> chans]

\* variant: the report is written only when something was scraped
GenerateReportIfAny ==
    /\ pc = "loop"
    /\ idx > Len(channels)
    /\ reports' = IF total_messages = 0 THEN reports
                  ELSE Append(reports, Report(channels, total_messages))
    /\ pc' = "done"
    /\ UNCHANGED <<configVars, otherVars, mediaVars,
                   fetchVars, channelVars, lakeVars, connected, idx,
                   total_messages, outcomes, delays>>

\* the for loop is over: generate_scrape_report(total_messages), scrape_all returns
GenerateReport ==
    /\ pc = "loop"
    /\ idx > Len(channels)
    /\ reports' = Append(reports, Report(channels, total_messages))
    /\ pc' = "done"
    /\ UNCHANGED <<configVars, otherVars, mediaVars,
                   fetchVars, channelVars, lakeVars, connected, idx,
                   total_messages, outcomes, delays>>

Next ==
    \/ ConnectOk
    \/ ConnectFails
    \/ ForNext
    \/ GetEntityOk
    \/ GetEntityFails
    \/ AttemptStart
    \/ Yield
    \/ StreamEnd
    \/ Raise
    \/ Backoff
    \/ RetriesExhausted
    \/ NoMessages
    \/ Process
    \/ SaveSkipped
    \/ SaveOpen
    \/ SaveDump
    \/ SaveSummary
    \/ SaveFails
    \/ Accumulate
    \/ Delay
    \/ GenerateReport

Spec == Init /\ [][Next]_vars

\* the steps of one scrape_channel call, up to its return
ChannelNext ==
    \/ GetEntityOk
    \/ GetEntityFails
    \/ AttemptStart
    \/ Yield
    \/ StreamEnd
    \/ Raise
    \/ Backoff
    \/ RetriesExhausted
    \/ NoMessages
    \/ Process
    \/ SaveSkipped
    \/ SaveOpen
    \/ SaveDump
    \/ SaveSummary
    \/ SaveFails

ChannelSpec == ChannelInit /\ [][ChannelNext]_vars

\* the event loop always resumes the single control flow, and the upstream
\* answers every request (with an item, the end of the stream or an error)
FairChannelSpec == ChannelSpec /\ WF_vars(ChannelNext)

\* the steps of one safe_get_messages call, up to its return
FetchNext ==
    \/ AttemptStart
    \/ Yield
    \/ StreamEnd
    \/ Raise
    \/ Backoff
    \/ RetriesExhausted

FetchSpec == FetchInit /\ [][FetchNext]_vars

\* as FairChannelSpec, for one safe_get_messages call
FairFetchSpec == FetchSpec /\ WF_vars(FetchNext)

\* ---- process_message and download_image (scraper.py 152-182, 194-222) ----

MediaKinds == {"none", "photo", "document"}

\* scrape_channel calls process_message for one message of its channel
MessageInit ==
    /\ channels \in [1..1 -> ChannelIds]
    /\ limit = 1
    /\ upstream = [c \in ChannelIds |-> IF c = channels[1] THEN MaxAvail ELSE 0]
    /\ \E id \in 1..MaxAvail :
          /\ undated \in SUBSET {id}
          /\ msg \in {[Message(id) EXCEPT !.media = m] : m \in MediaKinds}
    /\ pc = "process_message"
    /\ connected = TRUE
    /\ idx = 1
    /\ NothingDone

\* building msg_data raises: except Exception, return None (scraper.py 179-182)
ProcessRaises ==
    /\ pc = "process_message"
    /\ result' = <<>>
    /\ pc' = "message_done"
    /\ UNCHANGED <<configVars, otherVars, fetchVars, channelVars, lakeVars, runVars,
                   msg, download, image, img_path>>

\* no photo: download_image is not called, msg_data is returned as built
NoPhoto ==
    /\ pc = "process_message"
    /\ ~IsPhoto(msg)
    /\ result' = <<process_message(msg, channels[idx], NoPath)>>
    /\ pc' = "message_done"
    /\ UNCHANGED <<configVars, otherVars, fetchVars, channelVars, lakeVars, runVars,
                   msg, download, image, img_path>>

\* a photo: download_image starts message.download_media under wait_for
DownloadStart ==
    /\ pc = "process_message"
    /\ IsPhoto(msg)
    /\ download' = "running"
    /\ pc' = "download"
    /\ UNCHANGED <<configVars, otherVars, fetchVars, channelVars, lakeVars, runVars,
                   msg, image, img_path, result>>

\* what a download can leave at img_path: nothing, a zero-byte file, data
ImageStates == {"missing", "empty", "data"}

\* download_media returned within request_timeout
DownloadCompletes ==
    /\ pc = "download"
    /\ download' = "completed"
    /\ image' \in ImageStates
    /\ pc' = "check"
    /\ UNCHANGED <<configVars, otherVars, fetchVars, channelVars, lakeVars, runVars,
                   msg, img_path, result>>

\* variant: the existence of the file is all that is checked
FileExists(file) == file # "missing"

\* os.path.exists(img_path) and os.path.getsize(img_path) > 0
FileOk(file) == file = "data"

\* the check after the download, and the return of download_image
CheckFile ==
    /\ pc = "check"
    /\ img_path' = IF FileOk(image) THEN ImagePath(msg, channels[idx]) ELSE NoPath
    /\ pc' = "download_returned"
    /\ UNCHANGED <<configVars, otherVars, fetchVars, channelVars, lakeVars, runVars,
                   msg, download, image, result>>

\* variant: the failure of the download leaves download_image and is caught
\* by process_message, which returns None
DownloadFailsPropagates ==
    /\ pc = "download"
    /\ download' \in {"timeout", "error"}
    /\ image' \in ImageStates
    /\ result' = <<>>
    /\ pc' = "message_done"
    /\ UNCHANGED <<configVars, otherVars, fetchVars, channelVars, lakeVars, runVars,
                   msg, img_path>>

\* asyncio.TimeoutError or any other exception in download_image: logged,
\* return None; whatever was written so far stays on disk
DownloadFails ==
    /\ pc = "download"
    /\ download' \in {"timeout", "error"}
    /\ image' \in ImageStates
    /\ img_path' = NoPath
    /\ pc' = "download_returned"
    /\ UNCHANGED <<configVars, otherVars, fetchVars, channelVars, lakeVars, runVars,
                   msg, result>>

\* if img_path: msg_data["image_path"] = img_path; return msg_data
ReturnRecord ==
    /\ pc = "download_returned"
    /\ result' = <<process_message(msg, channels[idx], img_path)>>
    /\ pc' = "message_done"
    /\ UNCHANGED <<configVars, otherVars, fetchVars, channelVars, lakeVars, runVars,
                   msg, download, image, img_path>>

MessageNext ==
    \/ ProcessRaises
    \/ NoPhoto
    \/ DownloadStart
    \/ DownloadCompletes
    \/ CheckFile
    \/ DownloadFails
    \/ ReturnRecord

MessageSpec == MessageInit /\ [][MessageNext]_vars

\* ---- asyncio.gather over process_message (scraper.py 296-301) -----------

\* the lists safe_get_messages can hand over: messages of the channel, repeats included
RawLists ==
    UNION {[1..k -> {Message(id) : id \in 1..MaxAvail}] : k \in 1..MaxGather}

\* scrape_channel has fetched raw_messages and starts one task per message
GatherInit ==
    /\ channels \in [1..1 -> ChannelIds]
    /\ limit = 1
    /\ upstream = [c \in ChannelIds |-> IF c = channels[1] THEN MaxAvail ELSE 0]
    /\ undated = {}
    /\ pc = "gather"
    /\ connected = TRUE
    /\ idx = 1
    /\ total_messages = 0
    /\ messages = <<>>
    /\ retry_count = 0
    /\ pos = 0
    /\ err = <<>>
    /\ waited = 0
    /\ attempts = 0
    /\ yielded = <<>>
    /\ raw_messages \in RawLists
    /\ errors = 0
    /\ processed_messages = <<>>
    /\ count = 0
    /\ failed = FALSE
    /\ files = [p \in Paths |-> NoFile]
    /\ manifests = [p \in Paths |-> NoFile]
    /\ outcomes = <<>>
    /\ delays = 0
    /\ reports = <<>>
    /\ msg = <<>>
    /\ download = "idle"
    /\ image = "missing"
    /\ img_path = <<>>
    /\ result = <<>>
    /\ results = [i \in 1..Len(raw_messages) |-> <<>>]
    /\ finished = <<>>
    /\ TextIdle
    /\ ConfigRead
    /\ PacingIdle
    /\ ApiIdle

\* positions of the tasks that are still running
Running == (1..Len(raw_messages)) \ {finished[k] : k \in 1..Len(finished)}

\* one of the running process_message tasks finishes, with a record or with
\* None; which one is up to the event loop and the downloads
TaskFinishes ==
    /\ pc = "gather"
    /\ \E i \in Running :
          /\ \E ok \in BOOLEAN :
                results' = [results EXCEPT ![i] =
                               IF ok THEN <<process_message(raw_messages[i], channels[idx],
                                                            NoPath)>>
                               ELSE <<>>]
          /\ finished' = Append(finished, i)
    /\ UNCHANGED <<configVars, mediaVars, fetchVars, channelVars, lakeVars, runVars,
                   textVars, registryVars, pacingVars, apiVars, pc>>

\* variant: the values in the order in which the tasks finished
GatheredAsCompleted(values, order) ==
    LET F[k \in 0..Len(order)] ==
            IF k = 0 THEN <<>>
            ELSE IF values[order[k]] = <<>> THEN F[k - 1]
            ELSE Append(F[k - 1], values[order[k]][1])
    IN F[Len(order)]

\* what gather returns, the list of the values in the order of the awaitables
\* it was given whatever the order of completion, after
\* [m for m in processed_messages if m]
Gathered(values, order) ==
    LET F[i \in 0..Len(values)] ==
            IF i = 0 THEN <<>>
            ELSE IF values[i] = <<>> THEN F[i - 1]
            ELSE Append(F[i - 1], values[i][1])
    IN F[Len(values)]

\* every task has finished: gather returns and the None values are dropped
GatherReturns ==
    /\ pc = "gather"
    /\ Running = {}
    /\ processed_messages' = Gathered(results, finished)
    /\ errors' = Cardinality({i \in 1..Len(results) : results[i] = <<>>})
    /\ pc' = "save"
    /\ UNCHANGED <<configVars, mediaVars, fetchVars, gatherVars, lakeVars, runVars,
                   textVars, registryVars, pacingVars, apiVars, raw_messages, count,
                   failed>>

GatherNext ==
    \/ TaskFinishes
    \/ GatherReturns

GatherSpec == GatherInit /\ [][GatherNext]_vars

\* ---- _contains_price and _contains_contact (scraper.py 184-192) ----------

\* a text is the sequence of its characters; a character outside ASCII is
\* written by its name: long_s (U+017F), dotless_i (U+0131), st_ligature
\* (U+FB06), ethiopic_hi (U+1205), ethiopic_thi, ethiopic_ya, ethiopic_qee
\* (U+1325, U+12EB, U+1244)
LowerLetters ==
    <<"a", "b", "c", "d", "e", "f", "g", "h", "i", "j", "k", "l", "m", "n",
      "o", "p", "q", "r", "s", "t", "u", "v", "w", "x", "y", "z">>
UpperLetters ==
    <<"A", "B", "C", "D", "E", "F", "G", "H", "I", "J", "K", "L", "M", "N",
      "O", "P", "Q", "R", "S", "T", "U", "V", "W", "X", "Y", "Z">>

\* str.lower() of one character: long_s, dotless_i and st_ligature are
\* lowercase letters, the Ethiopic letters have no case
lower_char(ch) ==
    IF \E i \in 1..26 : UpperLetters[i] = ch
    THEN LowerLetters[CHOOSE i \in 1..26 : UpperLetters[i] = ch]
    ELSE ch

\* text.lower()
lower(t) == [i \in 1..Len(t) |-> lower_char(t[i])]

\* pattern in t
In(pattern, t) ==
    \E i \in 1..(Len(t) - Len(pattern) + 1) :
        SubSeq(t, i, i + Len(pattern) - 1) = pattern

price_patterns ==
    {<<"E", "T", "B">>,
     <<"b", "i", "r", "r">>,
     <<"U", "S", "D">>,
     <<"$">>,
     <<"p", "r", "i", "c", "e">>,
     <<"ethiopic_hi">>}

contact_patterns ==
    {<<"0", "9">>,
     <<"+", "2", "5", "1">>,
     <<"@">>,
     <<"t", "e", "l", "e", "g", "r", "a", "m">>,
     <<"c", "a", "l", "l">>,
     <<"ethiopic_thi", "ethiopic_ya", "ethiopic_qee">>}

\* any(pattern.lower() in text.lower() for pattern in price_patterns)
contains_price(t) ==
    \E pattern \in price_patterns : In(lower(pattern), lower(t))

\* variant: the text is searched as it is
contains_contact_cased(t) ==
    \E pattern \in contact_patterns : In(lower(pattern), t)

\* any(pattern.lower() in text.lower() for pattern in contact_patterns)
contains_contact(t) ==
    \E pattern \in contact_patterns : In(lower(pattern), lower(t))

\* the texts of the scenarios
PriceEtbText ==
    <<"P", "r", "i", "c", "e", ":", " ", "1", "0", "0", " ", "E", "T", "B">>
OnlyBirrText ==
    <<"O", "n", "l", "y", " ", "5", "0", " ", "b", "i", "r", "r", "!">>
NoPriceText ==
    <<"N", "o", " ", "p", "r", "i", "c", "e", " ", "i", "n", "f", "o", " ",
      "h", "e", "r", "e">>
CallText ==
    <<"C", "a", "l", "l", " ", "0", "9", "1", "2", "3", "4", "5", "6", "7",
      "8">>
ContactText ==
    <<"C", "o", "n", "t", "a", "c", "t", ":", " ", "+", "2", "5", "1", "9",
      "1", "2", "3", "4", "5", "6", "7", "8">>
TelegramText ==
    <<"T", "e", "l", "e", "g", "r", "a", "m", ":", " ", "@", "u", "s", "e",
      "r">>
NoContactText ==
    <<"N", "o", " ", "c", "o", "n", "t", "a", "c", "t", " ", "i", "n", "f",
      "o">>

ScenarioTexts ==
    {PriceEtbText, OnlyBirrText, NoPriceText, CallText,
     ContactText, TelegramText, NoContactText}

\* pieces of text that put the patterns together in upper, lower and special case
Fragments ==
    {<<"u", "long_s", "d">>,
     <<"U", "S", "D">>,
     <<"b", "dotless_i", "r", "r">>,
     <<"st_ligature">>,
     <<"e", "l", "e", "g", "r", "a", "m">>,
     <<"p", "r", "i">>,
     <<"c", "e">>,
     <<"C", "a", "l", "l">>,
     <<"$">>,
     <<"@">>,
     <<"0">>,
     <<"9">>,
     <<" ">>,
     <<"ethiopic_hi">>,
     <<"ethiopic_thi", "ethiopic_ya", "ethiopic_qee">>}

RECURSIVE Concat(_)
Concat(pieces) ==
    IF pieces = <<>> THEN <<>> ELSE Head(pieces) \o Concat(Tail(pieces))

\* the texts looked at: up to MaxPieces pieces in a row
Texts ==
    {Concat(pieces) :
        pieces \in UNION {[1..k -> ScenarioTexts \cup Fragments] : k \in 0..MaxPieces}}

\* process_message is about to compute the two flags of a message text
TextInit ==
    /\ channels \in [1..1 -> ChannelIds]
    /\ limit = 1
    /\ upstream = [c \in ChannelIds |-> 0]
    /\ undated = {}
    /\ pc = "text"
    /\ connected = TRUE
    /\ idx = 1
    /\ msg = <<>>
    /\ ScraperIdle
    /\ GatherIdle
    /\ text \in Texts
    /\ price = <<>>
    /\ contact = <<>>
    /\ ConfigRead
    /\ PacingIdle
    /\ ApiIdle

\* "contains_price": self._contains_price(message.text or "")
ContainsPrice ==
    /\ pc = "text"
    /\ price = <<>>
    /\ price' = <<contains_price(text)>>
    /\ UNCHANGED <<configVars, mediaVars, fetchVars, channelVars, lakeVars, runVars,
                   gatherVars, registryVars, pacingVars, apiVars, pc, text, contact>>

\* "contains_contact": self._contains_contact(message.text or "")
ContainsContact ==
    /\ pc = "text"
    /\ contact = <<>>
    /\ contact' = <<contains_contact(text)>>
    /\ UNCHANGED <<configVars, mediaVars, fetchVars, channelVars, lakeVars, runVars,
                   gatherVars, registryVars, pacingVars, apiVars, pc, text, price>>

TextNext ==
    \/ ContainsPrice
    \/ ContainsContact

TextSpec == TextInit /\ [][TextNext]_vars

\* ---- load_channels (scraper.py 33-41, 52) --------------------------------

\* return ["lobelia4cosmetics", "tikvahpharma"]
FallbackChannels == <<"lobelia4cosmetics", "tikvahpharma">>

\* the file at CHANNELS_CONFIG_PATH: not there; there with a JSON list; there
\* and not to be opened; there and no JSON
Configs ==
    {[state |-> st, content |-> <<>>] : st \in {"absent", "unreadable", "malformed"}}
    \cup {ValidConfig(list) : list \in UNION {[1..k -> ChannelIds] : k \in 0..MaxConfig}}

\* TelegramScraper.__init__ is about to call load_channels
RegistryInit ==
    /\ config \in Configs
    /\ channels = <<>>
    /\ limit = 1
    /\ upstream = [c \in ChannelIds |-> 0]
    /\ undated = {}
    /\ pc = "load"
    /\ connected = FALSE
    /\ idx = 0
    /\ msg = <<>>
    /\ ScraperIdle
    /\ GatherIdle
    /\ TextIdle
    /\ PacingIdle
    /\ ApiIdle

\* what load_channels leaves alone
registryFrame ==
    <<limit, upstream, undated, mediaVars, fetchVars, channelVars, lakeVars, runVars,
      gatherVars, textVars, registryVars, pacingVars, apiVars>>

\* os.path.exists is false: the hardcoded list is returned
LoadFallback ==
    /\ pc = "load"
    /\ config.state = "absent"
    /\ channels' = FallbackChannels
    /\ pc' = "start"
    /\ UNCHANGED registryFrame

\* the file exists and open succeeds
ConfigOpened ==
    /\ pc = "load"
    /\ config.state \in {"valid", "malformed"}
    /\ pc' = "parse"
    /\ UNCHANGED <<channels, registryFrame>>

\* the file exists and open raises (PermissionError, IsADirectoryError):
\* nothing catches it, the constructor fails
OpenRaises ==
    /\ pc = "load"
    /\ config.state = "unreadable"
    /\ pc' = "raised"
    /\ UNCHANGED <<channels, registryFrame>>

\* return json.load(f)
ParseOk ==
    /\ pc = "parse"
    /\ config.state = "valid"
    /\ channels' = config.content
    /\ pc' = "start"
    /\ UNCHANGED registryFrame

\* json.load raises JSONDecodeError: nothing catches it
ParseRaises ==
    /\ pc = "parse"
    /\ config.state = "malformed"
    /\ pc' = "raised"
    /\ UNCHANGED <<channels, registryFrame>>

RegistryNext ==
    \/ LoadFallback
    \/ ConfigOpened
    \/ OpenRaises
    \/ ParseOk
    \/ ParseRaises

RegistrySpec == RegistryInit /\ [][RegistryNext]_vars

\* ---- safe_get_messages, the periodic sleep (scraper.py 113-150) ---------
\* the list messages is represented by its length, the exception by the
\* retry it costs

\* scrape_channel calls safe_get_messages for a channel that holds at least
\* limit messages
PacingInit ==
    /\ channels \in [1..1 -> ChannelIds]
    /\ limit \in MICRO_DELAY_EVERY..MaxPacedLimit
    /\ upstream = [c \in ChannelIds |-> IF c = channels[1] THEN MaxPacedLimit ELSE 0]
    /\ undated = {}
    /\ pc = "fetch"
    /\ connected = TRUE
    /\ idx = 1
    /\ msg = <<>>
    /\ ScraperIdle
    /\ GatherIdle
    /\ TextIdle
    /\ ConfigRead
    /\ PacingIdle
    /\ ApiIdle

\* what the counted safe_get_messages leaves alone
pacingFrame ==
    <<configVars, mediaVars, channelVars, lakeVars, runVars, gatherVars, textVars,
      registryVars, apiVars, messages, err, waited, attempts, yielded>>

\* while retry_count < self.max_retries: a new iter_messages stream is opened
PacedAttemptStart ==
    /\ pc = "fetch"
    /\ RetryAllowed(retry_count)
    /\ pos' = 0
    /\ slept' = FALSE
    /\ pc' = "stream"
    /\ UNCHANGED <<pacingFrame, retry_count, fetched>>

\* messages.append(message); if len(messages) % 50 == 0: await asyncio.sleep(delay)
PacedYield ==
    /\ pc = "stream"
    /\ pos < StreamLength(limit, avail)
    /\ fetched' = fetched + 1
    /\ pos' = pos + 1
    /\ slept' = (fetched' % MICRO_DELAY_EVERY = 0)
    /\ UNCHANGED <<pacingFrame, retry_count, pc>>

\* the stream raises: one of the except branches sleeps and counts the retry
PacedRaise ==
    /\ pc = "stream"
    /\ retry_count' = retry_count + 1
    /\ slept' = FALSE
    /\ pc' = "fetch"
    /\ UNCHANGED <<pacingFrame, pos, fetched>>

\* the stream is exhausted, or the while test fails: return messages
PacedReturn ==
    /\ \/ pc = "stream" /\ pos = StreamLength(limit, avail)
       \/ pc = "fetch" /\ ~RetryAllowed(retry_count)
    /\ pc' = "process"
    /\ UNCHANGED <<pacingFrame, retry_count, pos, fetched, slept>>

PacingNext ==
    \/ PacedAttemptStart
    \/ PacedYield
    \/ PacedRaise
    \/ PacedReturn

PacingSpec == PacingInit /\ [][PacingNext]_vars

\* ---- the analytical API (api/main.py 16-176) ------------------------------

Endpoints ==
    {"top-products", "activity", "search", "visual-content", "trending-channels"}

\* the detail of the HTTPException(status_code=404) of each endpoint
NotFoundDetail(endpoint) ==
    CASE endpoint = "top-products" -> "No products found."
      [] endpoint = "activity" -> "Channel not found or no activity."
      [] endpoint = "search" -> "No messages found for the given query."
      [] endpoint = "visual-content" -> "No visual content stats found."
      [] OTHER -> "No trending channels found."

\* the requests that pass the validation of the parameters: limit is a
\* parameter of top-products and search (0: the endpoint has none), channel_name
\* of activity ("": the endpoint has none)
Requests ==
    {[endpoint |-> e, limit |-> l, channel_name |-> ""] :
        e \in {"top-products", "search"}, l \in 1..MaxApiLimit}
    \cup {[endpoint |-> "activity", limit |-> 0, channel_name |-> c] :
              c \in ChannelIds \cup {"CheMed123"}}
    \cup {[endpoint |-> e, limit |-> 0, channel_name |-> ""] :
              e \in {"visual-content", "trending-channels"}}

\* most rows the query of a request returns
RowLimit(req) == IF req.limit > 0 THEN req.limit ELSE MaxRows

\* a handler is called with a validated request and a database session
ApiInit ==
    /\ channels = FallbackChannels
    /\ limit = 1
    /\ upstream = [c \in ChannelIds |-> 0]
    /\ undated = {}
    /\ pc = "api"
    /\ connected = FALSE
    /\ idx = 0
    /\ msg = <<>>
    /\ ScraperIdle
    /\ GatherIdle
    /\ TextIdle
    /\ ConfigRead
    /\ PacingIdle
    /\ request \in Requests
    /\ query = <<>>
    /\ response = <<>>

\* what a handler leaves alone
apiFrame ==
    <<configVars, mediaVars, fetchVars, channelVars, lakeVars, runVars, gatherVars,
      textVars, registryVars, pacingVars, request>>

\* db.execute(sql, ...) and the list built from its rows: the query raises, or
\* returns some rows, or none
Execute ==
    /\ pc = "api"
    /\ \/ /\ query' = <<[raised |-> "query", rows |-> 0]>>
          /\ pc' = "api_except"
       \/ /\ \E n \in 0..RowLimit(request) : query' = <<[raised |-> "none", rows |-> n]>>
          /\ pc' = "api_rows"
    /\ UNCHANGED <<apiFrame, response>>

\* return products / activity / messages / stats / trending
ReturnRows ==
    /\ pc = "api_rows"
    /\ query[1].rows > 0
    /\ response' = <<[status |-> 200, detail |-> "", rows |-> query[1].rows]>>
    /\ pc' = "responded"
    /\ UNCHANGED <<apiFrame, query>>

\* if not products: raise HTTPException(status_code=404, ...), inside the try
\* block: HTTPException is an Exception, the except clause below catches it
RaiseNotFound ==
    /\ pc = "api_rows"
    /\ query[1].rows = 0
    /\ query' = <<[query[1] EXCEPT !.raised = "not found"]>>
    /\ pc' = "api_except"
    /\ UNCHANGED <<apiFrame, response>>

\* except Exception as e: raise HTTPException(status_code=500, ...)
HandleException ==
    /\ pc = "api_except"
    /\ response' = <<[status |-> 500, detail |-> "Internal server error", rows |-> 0]>>
    /\ pc' = "responded"
    /\ UNCHANGED <<apiFrame, query>>

ApiNext ==
    \/ Execute
    \/ ReturnRows
    \/ RaiseNotFound
    \/ HandleException

ApiSpec == ApiInit /\ [][ApiNext]_vars

\* ==== properties =========================================================

\* message ids of a batch are pairwise different
UniqueIds(batch) ==
    \A i, j \in 1..Len(batch) : batch[i].message_id = batch[j].message_id => i = j

\* sum of the counts returned by the finished scrape_channel calls
SumCounts(o) ==
    LET F[i \in 0..Len(o)] == IF i = 0 THEN 0 ELSE F[i - 1] + o[i].count
    IN F[Len(o)]

\* C1: the list returned by safe_get_messages never holds more items than limit
C1_AtMostLimit == Len(raw_messages) <= limit

\* C2: when all max_retries attempts ended in an error, safe_get_messages has
\* returned normally and the returned list is exactly the messages yielded
\* during the attempts, in the order they were yielded
C2_PartialListKept ==
    (pc = "process" /\ retry_count = max_retries) => raw_messages = yielded

C2_Witness ==
    /\ pc = "process"
    /\ retry_count = max_retries
    /\ Len(yielded) >= 2
    /\ raw_messages = yielded

\* C3: every message_id occurs at most once in the batch written for a channel
C3_UniqueMessageIds ==
    \A p \in Paths : files[p] # NoFile => UniqueIds(Content(files[p]))

\* C4: a safe_get_messages call starts at most max_retries streams, every
\* failed attempt consumes exactly one retry, a successful attempt is followed
\* by no further attempt, and the call returns
C4_BoundedRetries ==
    /\ [](attempts <= max_retries)
    /\ [](pc \in {"stream", "except"} => attempts = retry_count + 1)
    /\ [][pc = "except" => (retry_count' = retry_count + 1 /\ attempts' = attempts)]_vars
    /\ [][(pc = "stream" /\ pc' \notin {"stream", "except"})
            => (pc' = "process" /\ retry_count' = retry_count)]_vars
    /\ [][pc = "process" => pc' \notin {"fetch", "stream", "except"}]_vars
    /\ (pc = "fetch" ~> pc = "process")

C4_Witness ==
    /\ pc = "process"
    /\ attempts = max_retries
    /\ retry_count = max_retries - 1

\* C5: after a FloodWaitError carrying seconds = w the engine sleeps at least w
\* seconds (w + 5) before the next stream is opened, and no stream is opened
\* between the error and the end of that sleep
C5_FloodWaitHonoured ==
    /\ [][(pc = "except" /\ err[1] = "flood")
            => (attempts' = attempts /\ waited' >= err[2])]_vars
    /\ [][(attempts' = attempts + 1 /\ err # <<>> /\ err[1] = "flood")
            => (waited >= err[2] /\ waited = err[2] + FLOOD_GRACE)]_vars

\* the sleep that follows a FloodWaitError longer than the fixed intervals has
\* ended and the while test lets the next attempt start
C5_Witness ==
    /\ pc = "fetch"
    /\ RetryAllowed(retry_count)
    /\ err # <<>>
    /\ err[1] = "flood"
    /\ err[2] > RPC_SLEEP
    /\ waited = err[2] + FLOOD_GRACE
    /\ Len(messages) >= 1

\* C6: the records scrape_channel hands to the writer, writes and counts are
\* the raw messages minus the ones whose processing raised; the others are kept
C6_CountMinusErrors ==
    /\ (pc \in {"save", "returned"} /\ raw_messages # <<>>)
          => Len(processed_messages) = Len(raw_messages) - errors
    /\ (pc = "returned" /\ ~failed /\ raw_messages # <<>>)
          => /\ count = Len(raw_messages) - errors
             /\ count > 0 => files[OutPath] = FileOf(processed_messages)

C6_Witness ==
    /\ pc = "returned"
    /\ ~failed
    /\ errors >= 1
    /\ count >= 1
    /\ count = Len(raw_messages) - errors

\* C7: when scrape_all returns after a successful connect, scrape_channel has
\* run for every channel of the list, in order, whatever channels failed, and
\* a failed channel has contributed 0
C7_ChannelFaultIsolated ==
    /\ (pc = "done" /\ connected) =>
          /\ Len(outcomes) = Len(channels)
          /\ \A i \in 1..Len(outcomes) : outcomes[i].channel = channels[i]
    /\ \A i \in 1..Len(outcomes) : outcomes[i].failed => outcomes[i].count = 0
    /\ (pc = "returned" /\ failed) => count = 0

C7_Witness ==
    /\ pc = "done"
    /\ Len(outcomes) = 2
    /\ outcomes[1].failed
    /\ ~outcomes[2].failed
    /\ outcomes[2].count >= 1

\* C8: once connect() has failed, scrape_all has returned and nothing was
\* looked up, fetched or written
C8_ConnectFailureAborts ==
    (pc # "start" /\ ~connected) =>
        /\ pc = "done"
        /\ outcomes = <<>>
        /\ attempts = 0
        /\ \A p \in Paths : files[p] = NoFile /\ manifests[p] = NoFile
        /\ reports = <<>>

C8_Witness ==
    /\ pc = "done"
    /\ ~connected
    /\ Len(channels) >= 1

\* C9: after a successful connect exactly one run report is written, once all
\* channels have been attempted, and its total_messages is the sum of the
\* counts returned by scrape_channel
C9_OneReportWithSum ==
    /\ pc # "done" => reports = <<>>
    /\ (pc = "done" /\ connected) =>
          /\ Len(reports) = 1
          /\ Len(outcomes) = Len(channels)
          /\ reports[1].total_messages = SumCounts(outcomes)
          /\ reports[1].total_channels = Len(channels)

C9_Witness ==
    /\ pc = "done"
    /\ Len(reports) = 1
    /\ Len(outcomes) = 2
    /\ outcomes[1].count >= 1
    /\ outcomes[2].count >= 1
    /\ reports[1].total_messages = outcomes[1].count + outcomes[2].count

\* C10 as stated: every scrape_all that has returned has generated a run report
C10_ReportAlways == pc = "done" => Len(reports) >= 1

\* C10 amended: a scrape_all that has returned has generated a run report
\* exactly when connect() succeeded
C10_ReportIffConnected == pc = "done" => (Len(reports) >= 1 <=> connected)

C10_Witness ==
    /\ pc = "done"
    /\ connected
    /\ Len(reports) >= 1
    /\ \E i \in 1..Len(outcomes) : outcomes[i].failed

\* ---- the writer ----------------------------------------------------------

\* timestamps in chronological order
DateLeq(a, b) == a[1] < b[1] \/ (a[1] = b[1] /\ a[2] <= b[2])

\* the message_date values present in a batch
Dates(batch) == {batch[i].message_date : i \in 1..Len(batch)} \ {NoDate}

\* d is the smallest (largest) message_date of the batch, None when there is none
IsEarliest(d, batch) ==
    IF Dates(batch) = {} THEN d = NoDate
    ELSE d \in Dates(batch) /\ \A e \in Dates(batch) : DateLeq(d, e)

IsLatest(d, batch) ==
    IF Dates(batch) = {} THEN d = NoDate
    ELSE d \in Dates(batch) /\ \A e \in Dates(batch) : DateLeq(e, d)

\* save_messages was called by the current scrape_channel and has returned
SaveReturned == pc = "returned" /\ ~failed /\ raw_messages # <<>>

\* C11: at every point of a run (a process abort can strike at any of them) each
\* data file is the complete prior version (here: no file, the lake starts
\* empty) or the complete new batch
C11_AtomicReplace ==
    \A p \in Paths :
        files[p] # NoFile =>
            /\ processed_messages # <<>>
            /\ p = OutPath
            /\ files[p] = FileOf(processed_messages)

\* C12 as stated: every call of save_messages that has returned has written a manifest
C12_ManifestAlways ==
    SaveReturned => \E p \in Paths : manifests[p] # NoFile

\* C12 amended: a call of save_messages with a non-empty batch that has returned
\* has written the manifest of that batch next to it; a call with an empty
\* batch has written nothing
C12_ManifestForNonEmptyBatch ==
    SaveReturned =>
        IF processed_messages = <<>>
        THEN \A p \in Paths : manifests[p] = NoFile /\ files[p] = NoFile
        ELSE /\ manifests[OutPath] # NoFile
             /\ Content(manifests[OutPath]).channel = channels[idx]
             /\ Content(manifests[OutPath]).file_path = OutPath
             /\ files[OutPath] # NoFile

\* the batch comes from a partial fetch: fewer messages than one complete stream
C12_Witness ==
    /\ SaveReturned
    /\ Len(raw_messages) < StreamLength(limit, avail)
    /\ processed_messages # <<>>
    /\ manifests[OutPath] # NoFile

\* C13: in the manifest total_messages is the size of the batch, earliest the
\* smallest and latest the largest message_date of its records
C13_ManifestRange ==
    (SaveReturned /\ processed_messages # <<>>) =>
        LET summary == Content(manifests[OutPath])
        IN /\ summary.total_messages = Len(processed_messages)
           /\ IsEarliest(summary.date_range.earliest, processed_messages)
           /\ IsLatest(summary.date_range.latest, processed_messages)

\* C14: the whole batch is written into the partition of the first record's
\* date, or of today when that record has no date, and into no other; the
\* manifest counts the batch and its file_path lies in that partition
C14_PartitionByFirstDate ==
    (pc \in {"summary", "returned"} /\ ~failed /\ processed_messages # <<>>) =>
        LET first == processed_messages[1]
            D == IF first.message_date = NoDate THEN Today ELSE first.message_date[1]
            p == <<D, channels[idx]>>
        IN /\ files[p] = FileOf(processed_messages)
           /\ \A q \in Paths : q # p => files[q] = NoFile
           /\ pc = "returned" =>
                 /\ manifests[p] # NoFile
                 /\ Content(manifests[p]).total_messages = Len(processed_messages)
                 /\ Content(manifests[p]).file_path[1] = D

\* a batch of several records, the first dated, the last of another day
C14_Witness ==
    /\ SaveReturned
    /\ Len(processed_messages) >= 2
    /\ processed_messages[1].message_date # NoDate
    /\ processed_messages[Len(processed_messages)].message_date # NoDate
    /\ processed_messages[Len(processed_messages)].message_date[1]
          # processed_messages[1].message_date[1]
    /\ Content(manifests[OutPath]).total_messages = Len(processed_messages)

\* C15: the write of a batch replaces the file of the channel in that
\* partition: after it the file holds exactly the records of the batch,
\* whatever it held, and no other file changes
C15_OverwriteOnRerun ==
    [][(pc = "dump" /\ pc' = "summary") =>
          /\ files'[OutPath] = FileOf(processed_messages)
          /\ \A q \in Paths : q # OutPath => files'[q] = files[q]]_vars

\* the second scrape of the same channel has written a batch over the file of
\* the first one, which held another number of records
C15_Witness ==
    /\ pc = "summary"
    /\ idx = 2
    /\ channels[1] = channels[2]
    /\ ~outcomes[1].failed
    /\ outcomes[1].count >= 1
    /\ outcomes[1].count # Len(processed_messages)
    /\ files[OutPath] = FileOf(processed_messages)

\* ---- the records --------------------------------------------------------

\* process_message has returned a record
RecordReturned == pc = "message_done" /\ result # <<>>

\* C16: a record with an image_path has has_media true
C16_ImagePathImpliesMedia ==
    (RecordReturned /\ result[1].image_path # NoPath) => result[1].has_media

C16_Witness ==
    /\ RecordReturned
    /\ result[1].image_path # NoPath
    /\ result[1].has_media

\* the converse of C16 does not hold: a record with media and without image_path
MediaWithoutImagePath ==
    /\ RecordReturned
    /\ result[1].has_media
    /\ result[1].image_path = NoPath

\* C17: a record has an image_path only when the media is a photo, the
\* download completed within the timeout without error and the file is there
\* and not empty; a missing or zero-byte file gives no image_path
C17_ImagePathOnlyForStoredPhoto ==
    RecordReturned =>
        /\ result[1].image_path # NoPath =>
              /\ IsPhoto(msg)
              /\ download = "completed"
              /\ image = "data"
              /\ result[1].image_path = ImagePath(msg, channels[idx])
        /\ image \in {"missing", "empty"} => result[1].image_path = NoPath

C17_Witness ==
    /\ RecordReturned
    /\ IsPhoto(msg)
    /\ download = "completed"
    /\ image = "data"
    /\ result[1].image_path = ImagePath(msg, channels[idx])

\* C18: after a download that timed out or failed process_message still
\* returns the record of the message, with no image_path
C18_DownloadFailureNotFatal ==
    (pc = "message_done" /\ download \in {"timeout", "error"}) =>
        /\ result # <<>>
        /\ result[1].message_id = msg.id
        /\ result[1].has_media
        /\ result[1].image_path = NoPath

C18_Witness ==
    /\ pc = "message_done"
    /\ download = "timeout"
    /\ result # <<>>
    /\ result[1].message_id = msg.id
    /\ result[1].image_path = NoPath

\* ---- the order of the channels -------------------------------------------

\* positions of the control flow inside scrape_channel
InChannel ==
    pc \in {"entity", "fetch", "stream", "except", "process", "save", "dump",
            "summary", "returned"}

\* C19: the channels are taken one after the other in the order of the list:
\* while channel idx is in its pipeline exactly the channels before it have
\* finished, each once and in list order, and a connected run ends with every
\* channel of the list attempted once
C19_SequentialInListOrder ==
    /\ Len(outcomes) <= Len(channels)
    /\ \A i \in 1..Len(outcomes) : outcomes[i].channel = channels[i]
    /\ InChannel => (idx \in 1..Len(channels) /\ Len(outcomes) = idx - 1)
    /\ pc = "delay" => (idx \in 1..Len(channels) /\ Len(outcomes) = idx)
    /\ pc = "loop" => Len(outcomes) = idx - 1
    /\ (pc = "done" /\ connected) => Len(outcomes) = Len(channels)

\* the second channel of a list of two different channels starts
C19_Witness ==
    /\ pc = "entity"
    /\ idx = 2
    /\ channels[1] # channels[2]
    /\ Len(outcomes) = 1
    /\ outcomes[1].channel = channels[1]

\* the sleeps due once k channels of the list have finished
DelaysDue(k) == IF k < Len(channels) THEN k ELSE Len(channels) - 1

\* C20: one delay after every channel but the last, whatever the identifiers
\* of the list: when the loop is about to take channel idx, or to end,
\* idx - 1 channels have finished and the delays taken are those due
C20_DelayBetweenChannels ==
    (connected /\ pc \in {"loop", "done"} /\ Len(channels) > 0) =>
        delays = DelaysDue(idx - 1)

\* ---- the order of the records ---------------------------------------------

\* positions of the raw messages whose task returned a record
KeptPositions == {i \in 1..Len(results) : results[i] # <<>>}

\* the k-th of these positions in the order of raw_messages
KeptPosition(k) ==
    CHOOSE i \in KeptPositions : Cardinality({j \in KeptPositions : j < i}) = k - 1

\* C21: the batch handed to save_messages holds the records of the raw
\* messages that were not skipped, in the order of raw_messages, whatever the
\* order in which the tasks finished
C21_BatchInFetchOrder ==
    pc = "save" =>
        /\ Len(processed_messages) = Cardinality(KeptPositions)
        /\ \A k \in 1..Len(processed_messages) :
              /\ processed_messages[k] = results[KeptPosition(k)][1]
              /\ processed_messages[k].message_id = raw_messages[KeptPosition(k)].id

\* the task of a later message finished before the task of an earlier,
\* different one, and both records are in the batch
C21_Witness ==
    /\ pc = "save"
    /\ \E a, b \in 1..Len(finished) :
          /\ a < b
          /\ finished[a] > finished[b]
          /\ results[finished[a]] # <<>>
          /\ results[finished[b]] # <<>>
          /\ raw_messages[finished[a]].id # raw_messages[finished[b]].id
    /\ Len(processed_messages) >= 2

\* ---- the flags of the text ------------------------------------------------

\* str.upper() of one character, as Python maps it: the uppercase of long_s,
\* dotless_i and st_ligature is S, I and ST
upper_char(ch) ==
    IF \E i \in 1..26 : LowerLetters[i] = ch
    THEN <<UpperLetters[CHOOSE i \in 1..26 : LowerLetters[i] = ch]>>
    ELSE CASE ch = "long_s" -> <<"S">>
           [] ch = "dotless_i" -> <<"I">>
           [] ch = "st_ligature" -> <<"S", "T">>
           [] OTHER -> <<ch>>

\* text.upper()
upper(t) ==
    LET F[i \in 0..Len(t)] == IF i = 0 THEN <<>> ELSE F[i - 1] \o upper_char(t[i])
    IN F[Len(t)]

CurrencyTokens ==
    {<<"E", "T", "B">>, <<"b", "i", "r", "r">>, <<"U", "S", "D">>, <<"$">>,
     <<"ethiopic_hi">>}

Digits == {"0", "1", "2", "3", "4", "5", "6", "7", "8", "9"}

\* token stands in t at position i, the case of the letters left aside
MatchesAt(token, t, i) ==
    /\ i + Len(token) - 1 <= Len(t)
    /\ \A k \in 1..Len(token) : lower_char(t[i + k - 1]) = lower_char(token[k])

\* t contains one of the tokens, the case of the letters left aside
HasToken(tokens, t) ==
    \E token \in tokens : \E i \in 1..Len(t) : MatchesAt(token, t, i)

\* C22: a text with a currency token has contains_price true; a text with the
\* word "price", no currency token and no digit at all (so no amount after the
\* word) has contains_price false
C22_PriceNeedsCurrencyOrAmount ==
    price # <<>> =>
        /\ HasToken(CurrencyTokens, text) => price[1]
        /\ (/\ HasToken({<<"p", "r", "i", "c", "e">>}, text)
            /\ ~HasToken(CurrencyTokens, text)
            /\ \A i \in 1..Len(text) : text[i] \notin Digits) => ~price[1]

\* C23: the two flags of a text are those of the text in upper case
C23_CaseInsensitive ==
    /\ price # <<>> => price[1] = contains_price(upper(text))
    /\ contact # <<>> => contact[1] = contains_contact(upper(text))

\* C24: contains_contact is true exactly for the texts that contain one of the
\* contact tokens, the case of the letters left aside: true for the three
\* scenario texts with a contact, false for the one without
C24_ContactIffToken ==
    contact # <<>> =>
        /\ contact[1] <=> HasToken(contact_patterns, text)
        /\ text \in {CallText, ContactText, TelegramText} => contact[1]
        /\ text = NoContactText => ~contact[1]

\* "Call 0912345678" has been looked at
C24_Witness ==
    /\ text = CallText
    /\ contact = <<TRUE>>

\* ---- the registry ----------------------------------------------------------

\* C25: load_channels never fails, and what it returns is the list of the
\* configuration file when there is a usable one, the fallback list otherwise
C25_LoadNeverFails ==
    /\ pc # "raised"
    /\ pc = "start" =>
          channels = IF config.state = "valid" THEN config.content ELSE FallbackChannels

\* ---- the periodic sleep ---------------------------------------------------

\* C26: within one attempt the micro-delay follows exactly the items 50, 100,
\* ... of that attempt, whatever earlier attempts left in the list
C26_DelayEvery50OfAttempt ==
    (pc = "stream" /\ pos > 0) => (slept <=> pos % MICRO_DELAY_EVERY = 0)

\* ---- the except branches --------------------------------------------------

\* C27: every exception of the stream is caught; a FloodWaitError of w seconds
\* is followed by a sleep of w + 5 seconds, another RPCError by one of 5, any
\* other exception by one of 10; each counts one retry and leads back to the
\* while test with the list untouched
C27_BackoffByErrorKind ==
    /\ [][(pc = "stream" /\ err' # <<>>)
            => (pc' = "except" /\ err'[1] \in {"flood", "rpc", "other"}
                /\ waited' = 0)]_vars
    /\ [][pc = "except"
            => /\ err[1] = "flood" => waited' = err[2] + 5
               /\ err[1] = "rpc" => waited' = 5
               /\ err[1] = "other" => waited' = 10
               /\ retry_count' = retry_count + 1
               /\ messages' = messages
               /\ pc' = "fetch"]_vars

\* an RPCError that is no FloodWaitError has been handled
C27_Witness ==
    /\ pc = "fetch"
    /\ err # <<>>
    /\ err[1] = "rpc"
    /\ waited = 5
    /\ retry_count = 1

\* ---- the API ---------------------------------------------------------------

\* C28: a request whose query succeeds and returns no row is answered with
\* 404 and the 'not found' detail of its endpoint; a request is answered with
\* 500 only when its query raised
C28_NotFoundIs404 ==
    pc = "responded" =>
        /\ (query[1].raised # "query" /\ query[1].rows = 0) =>
              /\ response[1].status = 404
              /\ response[1].detail = NotFoundDetail(request.endpoint)
        /\ response[1].status = 500 => query[1].raised = "query"

====
